---- MODULE Spec2Model ----
(***************************************************************************)
(* Cache-aside product/news handlers and the Redis fixed-window rate       *)
(* limiter of src/Redis&Caching.js.                                        *)
(*                                                                         *)
(* Every handler is an async function: each action below is one store or   *)
(* database call together with the synchronous code that runs when its     *)
(* promise settles, up to the next await.  Handlers of different requests  *)
(* interleave at these points.  In the rate limiter, where what matters is *)
(* when a call is counted and when it is let through, the store applying a *)
(* command and the handler resuming on the reply are separate actions.     *)
(***************************************************************************)
EXTENDS Integers, FiniteSets, Sequences, TLC

\* ------------------------------------------------------------------ bounds
MaxCacheTicks == 1   \* clock advances explored while the cache handlers run
MaxRateTicks  == 2   \* clock advances explored while the rate limiter runs
MaxCount == 12     \* cap on the stored rate counter

\* ------------------------------------------------------- program constants
DefaultPort == 6379            \* new Redis() / REDIS_PORT || 6379
ProductTtl  == 3600            \* "EX", 3600
NewsTtl     == 600             \* { ex: 600 }
WindowSecs  == 60              \* redis.expire(key, 60)
MaxRequests == 10              \* count > 10

\* ------------------------------------------------------------ input domains
Reqs  == {1, 2}                          \* requests in flight at the same time
Ids   == {"42"}                          \* req.params.id
Ips   == {"1.2.3.4"}                     \* req.ip
Docs  == {"docA"}                        \* product documents in the database
Null  == "null"                          \* Product.findById found nothing
Ports == {DefaultPort, DefaultPort + 1}  \* values of process.env.REDIS_PORT

Nil      == "nil"                        \* redis.get on a missing key
Legacy   == "<legacy-format>"            \* stored bytes that are not JSON
NewsList == "newsList"                   \* the array getFakeNewsFromDb returns

ProductKey(id) == <<"product", id>>      \* `product:${id}`
NewsKey        == <<"news", "all">>      \* "news:all"

\* The three servers the clients of the file talk to.
Local   == "localhost:6379"              \* redis  = new Redis()
Alt     == "localhost:REDIS_PORT"        \* redisr, when REDIS_PORT is another port
Upstash == "upstash"                     \* redis2 = new Redis({url, token})

Cells     == ({Local, Alt} \X {ProductKey(i) : i \in Ids})
               \cup ({Local, Upstash} \X {NewsKey})

VARIABLES
  redisPort,   \* process.env.REDIS_PORT || 6379
  cache,       \* string keys of the Redis servers: cell -> [val, ttl]
  counter,     \* rate:<ip> keys of the local server: ip -> [count, ttl]
  db,          \* the products collection: id -> document or Null
  req,         \* request slots: handler, position and local variables
  ticks,       \* clock advances made so far
  settled,     \* history: value of the last completed populate of a key
  deleted,     \* history: "no", or what the redis.del that was the last store
               \* operation on the key found there ("empty" / "entry")
  window,      \* history: per ip, the calls and expire commands of the
               \* current window, its age, and what earlier windows saw
  burst,       \* history: what a stretch of WindowSecs seconds has seen
  writer       \* history: per id, how far the last write to the source got

vars ==
  <<redisPort, cache, counter, db, req, ticks, settled, deleted, window, burst,
    writer>>

\* ------------------------------------------------------------- conversions
\* JSON.stringify of a document or of null.
Stringify(v) ==
  CASE v = "docA"   -> "'{docA}'"
    [] v = NewsList -> "'[newsList]'"
    [] OTHER        -> "'null'"

ParseError == "SyntaxError"

\* JSON.parse: the inverse of Stringify on JSON text, an exception otherwise.
Parse(s) ==
  CASE s = "'{docA}'"     -> "docA"
    [] s = "'[newsList]'" -> NewsList
    [] s = "'null'"       -> Null
    [] OTHER              -> ParseError

\* if (cached): a missing key (null) and the empty string are falsy.
Truthy(s) == s # Nil /\ s # ""

\* ------------------------------------------------------------ store model
Absent == [val |-> Nil, ttl |-> -2]           \* TTL of a missing key is -2

\* SET key value, the EX argument forgotten
SetNoEx(c, cell, value, seconds) ==
  [c EXCEPT ![cell] = [val |-> value, ttl |-> -1]]

\* SET key value EX seconds NX: an existing entry is kept
SetExIfAbsent(c, cell, value, seconds) ==
  IF c[cell].val # Nil THEN c
  ELSE [c EXCEPT ![cell] = [val |-> value, ttl |-> seconds]]

\* SET key value EX seconds
SetEx(c, cell, value, seconds) ==
  [c EXCEPT ![cell] = [val |-> value, ttl |-> seconds]]

\* a delete that only shortens the entry's life to a second
DelExpire(c, cell) ==
  IF c[cell].val = Nil THEN c ELSE [c EXCEPT ![cell].ttl = 1]

\* a delete that addresses another key
DelOther(c, cell) == c

\* DEL key
Del(c, cell) == [c EXCEPT ![cell] = Absent]

\* The server redisr is connected to.
RedisrServer == IF redisPort = DefaultPort THEN Local ELSE Alt

\* Remaining life of a key after d seconds; a key whose time is up is removed.
Aged(ttl, d) == IF ttl > 0 THEN (IF ttl <= d THEN -2 ELSE ttl - d) ELSE ttl

\* --------------------------------------------------------------- requests
NoRes == [status |-> 0, body |-> [none |-> TRUE]]

Idle ==
  [handler |-> "none", pc |-> "idle", id |-> "-", ip |-> "-",
   cached |-> Nil, product |-> Null, count |-> 0,
   out |-> "pending", res |-> NoRes, err |-> "none",
   fetches |-> 0, afterDel |-> "no", nth |-> 0, win |-> 0]

\* A new request takes the first idle slot (slots are interchangeable).
Free(r) == req[r].pc = "idle"
FirstFree(r) == Free(r) /\ \A s \in Reqs : Free(s) => r <= s

\* No handler has just returned: a request that has ended is taken off its
\* slot (Release) before anything else happens.
Quiet == \A s \in Reqs : req[s].pc # "done"

\* res.json(body) / res.status(s).json(body): the handler has answered.
Respond(q, s, b) ==
  [q EXCEPT !.pc = "done", !.out = "json", !.res = [status |-> s, body |-> b],
            !.cached = Nil, !.product = Null]

\* An awaited promise rejected (or JSON.parse threw) outside any try block:
\* the handler's own promise rejects and the handler sends no response.
Reject(q, e) ==
  [q EXCEPT !.pc = "done", !.out = "rejected", !.err = e,
            !.cached = Nil, !.product = Null]

\* a catch block that swallows the error and answers as if nothing was found
RouterCatchSwallow(q, e) ==
  [Respond(q, 200, [source |-> "db", data |-> Null]) EXCEPT !.err = e]

\* catch (err) of router.get("/:id")
RouterCatch(q, e) ==
  [Respond(q, 500, [error |-> e]) EXCEPT !.err = e]

\* catch (error) of app.get("/news")
NewsCatch(q, e) ==
  [Respond(q, 500, [success |-> FALSE, message |-> "Server error"])
     EXCEPT !.err = e]

\* An entry left by an earlier deployment that stored another format.
LegacyEntry == [val |-> Legacy, ttl |-> ProductTtl]

Unsettled == [val |-> "none", age |-> 0]

\* History of a stretch of time: seconds since it began, calls that reached
\* next() in it, and increments applied in it that returned at most 10.
NoBurst    == [state |-> "off", age |-> 0, adm |-> 0, cnt |-> 0]
FreshBurst == [NoBurst EXCEPT !.state = "on"]

NoWindow ==
  [calls |-> 0, expires |-> 0, age |-> -1, epoch |-> 0, denied |-> FALSE,
   admitted |-> 0, serial |-> 0]

Init ==
  /\ redisPort \in Ports
  /\ cache \in [Cells -> {Absent, LegacyEntry}]
  /\ \A c \in Cells : cache[c] = LegacyEntry => c[1] = Local /\ c[2] # NewsKey
  /\ counter = [ip \in Ips |-> [count |-> 0, ttl |-> -2]]
  /\ db \in [Ids -> Docs \cup {Null}]
  /\ req = [r \in Reqs |-> Idle]
  /\ ticks = 0
  /\ settled = [i \in Ids |-> Unsettled]
  /\ deleted = [i \in Ids |-> "no"]
  /\ window = [ip \in Ips |-> NoWindow]
  /\ burst = NoBurst
  /\ writer = [i \in Ids |-> "none"]

\* ------------------------------------------------- app.get("/products/:id")
StartProducts(r, id) ==
  /\ Quiet /\ FirstFree(r)
  /\ req' = [req EXCEPT ![r] = [Idle EXCEPT !.handler = "products",
                                            !.pc = "get", !.id = id]]
  /\ UNCHANGED <<redisPort, cache, counter, db, ticks, settled, deleted,
                 window, burst, writer>>

\* What a handler learns from a successful redis.get, with the history the
\* read starts from.
Got(q, value) ==
  [q EXCEPT !.cached = value, !.afterDel = deleted[q.id]]

\* const cached = await redis.get(cacheKey); if (cached) return res.json(...)
ProductsGet(r) ==
  /\ Quiet /\ req[r].handler = "products" /\ req[r].pc = "get"
  /\ \E ok \in BOOLEAN :
       IF ok
       THEN LET q == Got(req[r], cache[<<Local, ProductKey(req[r].id)>>].val)
            IN /\ req' = [req EXCEPT ![r] =
                    IF Truthy(q.cached)
                    THEN IF Parse(q.cached) = ParseError
                         THEN Reject(q, "parse")
                         ELSE Respond(q, 200, [value |-> Parse(q.cached)])
                    ELSE [q EXCEPT !.pc = "find"]]
               /\ deleted' = [deleted EXCEPT ![req[r].id] = "no"]
       ELSE /\ req' = [req EXCEPT ![r] = Reject(req[r], "get")]
            /\ UNCHANGED deleted
  /\ UNCHANGED <<redisPort, cache, counter, db, ticks, settled, window, burst,
                 writer>>

\* const product = await Product.findById(id)
ProductsFind(r) ==
  /\ Quiet /\ req[r].handler = "products" /\ req[r].pc = "find"
  /\ LET q == [req[r] EXCEPT !.fetches = @ + 1]
     IN \E ok \in BOOLEAN :
          req' = [req EXCEPT ![r] =
                    IF ok THEN [q EXCEPT !.product = db[q.id], !.pc = "set"]
                          ELSE Reject(q, "find")]
  /\ UNCHANGED <<redisPort, cache, counter, db, ticks, settled, deleted,
                 window, burst, writer>>

\* await redis.set(cacheKey, JSON.stringify(product), "EX", 3600); res.json(product)
ProductsSet(r) ==
  /\ Quiet /\ req[r].handler = "products" /\ req[r].pc = "set"
  /\ LET q == req[r]
     IN \E ok \in BOOLEAN :
          IF ok
          THEN /\ cache' = SetEx(cache, <<Local, ProductKey(q.id)>>,
                                 Stringify(q.product), ProductTtl)
               /\ req' = [req EXCEPT ![r] = Respond(q, 200, [value |-> q.product])]
               /\ settled' = [settled EXCEPT ![q.id] = [val |-> q.product, age |-> 0]]
               /\ deleted' = [deleted EXCEPT ![q.id] = "no"]
          ELSE /\ req' = [req EXCEPT ![r] = Reject(q, "set")]
               /\ UNCHANGED <<cache, settled, deleted>>
  /\ UNCHANGED <<redisPort, counter, db, ticks, window, burst, writer>>

\* ------------------------------------------------------- router.get("/:id")
StartRouter(r, id) ==
  /\ Quiet /\ FirstFree(r)
  /\ req' = [req EXCEPT ![r] = [Idle EXCEPT !.handler = "router",
                                            !.pc = "get", !.id = id]]
  /\ UNCHANGED <<redisPort, cache, counter, db, ticks, settled, deleted,
                 window, burst, writer>>

\* 1. Check Redis
RouterGet(r) ==
  /\ Quiet /\ req[r].handler = "router" /\ req[r].pc = "get"
  /\ \E ok \in BOOLEAN :
       IF ok
       THEN LET q == Got(req[r], cache[<<Local, ProductKey(req[r].id)>>].val)
            IN /\ req' = [req EXCEPT ![r] =
                    IF Truthy(q.cached)
                    THEN IF Parse(q.cached) = ParseError
                         THEN RouterCatch(q, "parse")
                         ELSE Respond(q, 200, [source |-> "cache",
                                               data |-> Parse(q.cached)])
                    ELSE [q EXCEPT !.pc = "find"]]
               /\ deleted' = [deleted EXCEPT ![req[r].id] = "no"]
       ELSE /\ req' = [req EXCEPT ![r] = RouterCatch(req[r], "get")]
            /\ UNCHANGED deleted
  /\ UNCHANGED <<redisPort, cache, counter, db, ticks, settled, window, burst,
                 writer>>

\* 2. Get from DB
RouterFind(r) ==
  /\ Quiet /\ req[r].handler = "router" /\ req[r].pc = "find"
  /\ LET q == [req[r] EXCEPT !.fetches = @ + 1]
     IN \E ok \in BOOLEAN :
          req' = [req EXCEPT ![r] =
                    IF ok
                    THEN IF db[q.id] = Null
                         THEN Respond([q EXCEPT !.product = Null], 404,
                                      [message |-> "Not found"])
                         ELSE [q EXCEPT !.product = db[q.id], !.pc = "set"]
                    ELSE RouterCatch(q, "find")]
  /\ UNCHANGED <<redisPort, cache, counter, db, ticks, settled, deleted,
                 window, burst, writer>>

\* 3. Save to Redis
RouterSet(r) ==
  /\ Quiet /\ req[r].handler = "router" /\ req[r].pc = "set"
  /\ LET q    == req[r]
         cell == <<RedisrServer, ProductKey(q.id)>>
     IN \E ok \in BOOLEAN :
          IF ok
          THEN /\ cache' = SetEx(cache, cell, Stringify(q.product), ProductTtl)
               /\ req' = [req EXCEPT ![r] =
                            Respond(q, 200, [source |-> "db", data |-> q.product])]
               /\ settled' = [settled EXCEPT ![q.id] = [val |-> q.product, age |-> 0]]
               /\ deleted' = [deleted EXCEPT ![q.id] =
                                IF cell[1] = Local THEN "no" ELSE @]
          ELSE /\ req' = [req EXCEPT ![r] = RouterCatch(q, "set")]
               /\ UNCHANGED <<cache, settled, deleted>>
  /\ UNCHANGED <<redisPort, counter, db, ticks, window, burst, writer>>

\* ---------------------------------------------------------- app.get("/news")
StartNews(r) ==
  /\ Quiet /\ FirstFree(r)
  /\ req' = [req EXCEPT ![r] = [Idle EXCEPT !.handler = "news", !.pc = "get"]]
  /\ UNCHANGED <<redisPort, cache, counter, db, ticks, settled, deleted,
                 window, burst, writer>>

\* const cachedNews = await redis.get(cacheKey)
NewsGet(r) ==
  /\ Quiet /\ req[r].handler = "news" /\ req[r].pc = "get"
  /\ \E ok \in BOOLEAN :
       req' = [req EXCEPT ![r] =
         IF ok
         THEN LET q == [req[r] EXCEPT !.cached = cache[<<Local, NewsKey>>].val]
              IN IF Truthy(q.cached)
                 THEN Respond(q, 200, [success |-> TRUE, source |-> "cache",
                                       data |-> q.cached])
                 ELSE [q EXCEPT !.pc = "find"]
         ELSE NewsCatch(req[r], "get")]
  /\ UNCHANGED <<redisPort, cache, counter, db, ticks, settled, deleted,
                 window, burst, writer>>

\* const news = await getFakeNewsFromDb(): returns a literal, cannot fail
NewsFind(r) ==
  /\ Quiet /\ req[r].handler = "news" /\ req[r].pc = "find"
  /\ req' = [req EXCEPT ![r] = [@ EXCEPT !.fetches = @ + 1,
                                         !.product = NewsList, !.pc = "set"]]
  /\ UNCHANGED <<redisPort, cache, counter, db, ticks, settled, deleted,
                 window, burst, writer>>

\* await redis2.set(cacheKey, news, { ex: 600 })
NewsSet(r) ==
  /\ Quiet /\ req[r].handler = "news" /\ req[r].pc = "set"
  /\ LET q == req[r]
     IN \E ok \in BOOLEAN :
          IF ok
          THEN /\ cache' = SetEx(cache, <<Upstash, NewsKey>>,
                                 Stringify(q.product), NewsTtl)
               /\ req' = [req EXCEPT ![r] =
                            Respond(q, 200, [success |-> TRUE, source |-> "db",
                                             data |-> q.product])]
          ELSE /\ req' = [req EXCEPT ![r] = NewsCatch(q, "set")]
               /\ UNCHANGED cache
  /\ UNCHANGED <<redisPort, counter, db, ticks, settled, deleted, window,
                 burst, writer>>

\* ----------------------------------------------------- write path and clock
\* History: some read of the key has fetched a product that the source no
\* longer holds and has yet to populate the cache with it.
HoldsOld(id) ==
  \E r \in Reqs : /\ req[r].handler \in {"products", "router"}
                   /\ req[r].id = id /\ req[r].pc = "set"
                   /\ req[r].product # db[id]

\* redis.del("product:123") reaches the store
Deletes(id) ==
  /\ Quiet
  /\ cache' = Del(cache, <<Local, ProductKey(id)>>)
  /\ deleted' = [deleted EXCEPT ![id] =
                     IF cache[<<Local, ProductKey(id)>>].val = Nil
                     THEN "empty" ELSE "entry"]
  /\ settled' = [settled EXCEPT ![id] = Unsettled]
  /\ UNCHANGED <<redisPort, counter, db, req, ticks, window, burst>>

\* the products collection takes a new value for the id
Commits(id, v) ==
  /\ Quiet
  /\ v # db[id]
  /\ db' = [db EXCEPT ![id] = v]
  /\ UNCHANGED <<redisPort, cache, counter, req, ticks, settled, deleted,
                 window, burst>>

\* await redis.del("product:123"): invalidate on update / delete
Invalidate(id) == Deletes(id) /\ UNCHANGED writer

\* The source of truth changes: a product is created, updated or removed.
DbWrite(id, v) == Commits(id, v) /\ UNCHANGED writer

\* A write path that follows "Invalidate cache on update / delete": the
\* update or delete is committed ...
WriterCommit(id, v) ==
  /\ writer[id] # "committed"
  /\ Commits(id, v)
  /\ writer' = [writer EXCEPT ![id] = "committed"]

\* ... and then the key is invalidated.
WriterInvalidate(id) ==
  /\ writer[id] = "committed"
  /\ Deletes(id)
  /\ writer' = [writer EXCEPT ![id] =
                  IF HoldsOld(id) THEN "raced" ELSE "finished"]

\* Seconds the clock may advance by: one, or up to the expiry of some key.
TickSteps ==
  {1} \cup {cache[c].ttl : c \in {x \in Cells : cache[x].ttl > 0}}
      \cup {counter[ip].ttl : ip \in {x \in Ips : counter[x].ttl > 0}}

\* d seconds pass: every key with an expiry ages, and expired keys vanish.
Elapse(d) ==
  /\ ticks' = ticks + 1
  /\ cache' = [c \in Cells |->
                 IF Aged(cache[c].ttl, d) = -2 THEN Absent
                 ELSE [cache[c] EXCEPT !.ttl = Aged(@, d)]]
  /\ counter' = [ip \in Ips |->
                   IF Aged(counter[ip].ttl, d) = -2
                   THEN [count |-> 0, ttl |-> -2]
                   ELSE [counter[ip] EXCEPT !.ttl = Aged(@, d)]]
  /\ settled' = [i \in Ids |->
                   IF settled[i].val = "none" \/ settled[i].age + d >= ProductTtl
                   THEN Unsettled
                   ELSE [settled[i] EXCEPT !.age = @ + d]]
  /\ window' = [ip \in Ips |->
                  IF window[ip].age < 0 THEN window[ip]
                  ELSE IF window[ip].age + d >= WindowSecs
                       THEN [NoWindow EXCEPT !.epoch = 1,
                                             !.denied = window[ip].denied,
                                             !.serial = window[ip].serial + 1]
                       ELSE [window[ip] EXCEPT !.age = @ + d]]
  /\ UNCHANGED <<redisPort, db, req, deleted, writer>>

CacheTick(d) ==
  Quiet /\ ticks < MaxCacheTicks /\ Elapse(d) /\ UNCHANGED burst

\* The handler has returned; its slot is free for the next request.
Release(r) ==
  /\ req[r].pc = "done"
  /\ req' = [req EXCEPT ![r] = Idle]
  /\ UNCHANGED <<redisPort, cache, counter, db, ticks, settled, deleted,
                 window, burst, writer>>

NextCache ==
  \/ \E r \in Reqs, id \in Ids : StartProducts(r, id)
  \/ \E r \in Reqs : ProductsGet(r)
  \/ \E r \in Reqs : ProductsFind(r)
  \/ \E r \in Reqs : ProductsSet(r)
  \/ \E r \in Reqs, id \in Ids : StartRouter(r, id)
  \/ \E r \in Reqs : RouterGet(r)
  \/ \E r \in Reqs : RouterFind(r)
  \/ \E r \in Reqs : RouterSet(r)
  \/ \E r \in Reqs : StartNews(r)
  \/ \E r \in Reqs : NewsGet(r)
  \/ \E r \in Reqs : NewsFind(r)
  \/ \E r \in Reqs : NewsSet(r)
  \/ \E id \in Ids : Invalidate(id)
  \/ \E id \in Ids, v \in Docs \cup {Null} : DbWrite(id, v)
  \/ \E d \in TickSteps : CacheTick(d)
  \/ \E r \in Reqs : Release(r)

SpecCache == Init /\ [][NextCache]_vars

\* The product reads next to a write path that commits, then invalidates.
NextWriter ==
  \/ \E r \in Reqs, id \in Ids : StartProducts(r, id)
  \/ \E r \in Reqs : ProductsGet(r)
  \/ \E r \in Reqs : ProductsFind(r)
  \/ \E r \in Reqs : ProductsSet(r)
  \/ \E r \in Reqs, id \in Ids : StartRouter(r, id)
  \/ \E r \in Reqs : RouterGet(r)
  \/ \E r \in Reqs : RouterFind(r)
  \/ \E r \in Reqs : RouterSet(r)
  \/ \E id \in Ids, v \in Docs \cup {Null} : WriterCommit(id, v)
  \/ \E id \in Ids : WriterInvalidate(id)
  \/ \E d \in TickSteps : CacheTick(d)
  \/ \E r \in Reqs : Release(r)

SpecWriter == Init /\ [][NextWriter]_vars

\* ------------------------------------------------------------- rateLimiter
StartLimiter(r, ip) ==
  /\ Quiet /\ FirstFree(r)
  /\ req' = [req EXCEPT ![r] = [Idle EXCEPT !.handler = "rateLimiter",
                                            !.pc = "incr", !.ip = ip]]
  /\ UNCHANGED <<redisPort, cache, counter, db, ticks, settled, deleted,
                 window, burst, writer>>

\* a counter that is created once and never advanced
IncrOnce(k) ==
  [count |-> IF k.count = 0 THEN 1 ELSE k.count,
   ttl |-> IF k.ttl = -2 THEN -1 ELSE k.ttl]

\* a counter that stops counting once the limit is passed
IncrCapped(k) ==
  [count |-> IF k.count > MaxRequests THEN k.count ELSE k.count + 1,
   ttl |-> IF k.ttl = -2 THEN -1 ELSE k.ttl]

\* INCR key: a missing key counts from 0 and is created without an expiry;
\* an existing key keeps the expiry it has.
Incr(k) ==
  [count |-> k.count + 1, ttl |-> IF k.ttl = -2 THEN -1 ELSE k.ttl]

\* a key given half the time to live that was asked for
ExpireHalf(k, seconds) ==
  IF k.ttl = -2 THEN k ELSE [k EXCEPT !.ttl = seconds \div 2]

\* EXPIRE key seconds: (re)starts the key's time to live; no effect on a
\* missing key.
Expire(k, seconds) == IF k.ttl = -2 THEN k ELSE [k EXCEPT !.ttl = seconds]

\* the expiry refreshed on every call
NeedsExpireAlways(count) == count >= 1

\* if (count === 1)
NeedsExpire(count) == count = 1

\* an off-by-one threshold
ExceededFrom10(count) == count >= MaxRequests

\* if (count > 10)
Exceeded(count) == count > MaxRequests

\* if (count > 10) return res.status(429).json(...); next();
Verdict(q) ==
  IF Exceeded(q.count)
  THEN Respond(q, 429, [error |-> "Too many requests"])
  ELSE [q EXCEPT !.pc = "done", !.out = "next"]

\* History: an event of the stretch of time being watched.
Seen(b, what) ==
  IF b.state # "on" THEN b
  ELSE IF what = "adm" THEN [b EXCEPT !.adm = @ + 1]
       ELSE [b EXCEPT !.cnt = @ + 1]

\* History: the stretch being watched ends once it is longer than WindowSecs.
Watched(b, d) ==
  IF b.state # "on" THEN b
  ELSE IF b.age + d > WindowSecs THEN [NoBurst EXCEPT !.state = "over"]
       ELSE [b EXCEPT !.age = @ + d]

\* History: a call that reaches next() is tallied in the window that counted
\* it, if that window is still the current one.
Tally(w, q) ==
  IF ~Exceeded(q.count) /\ q.win = w.serial
  THEN [w EXCEPT !.admitted = @ + 1] ELSE w

\* await redis.incr(key): the server applies the command.  The reply reaches
\* the handler later (LimiterCounted).
LimiterIncr(r) ==
  /\ Quiet /\ req[r].handler = "rateLimiter" /\ req[r].pc = "incr"
  /\ LET ip == req[r].ip
     IN \E ok \in BOOLEAN :
          IF ok
          THEN /\ counter[ip].count < MaxCount
               /\ counter' = [counter EXCEPT ![ip] = Incr(@)]
               /\ window' = [window EXCEPT
                    ![ip].calls = @ + 1,
                    ![ip].denied = @ \/ Exceeded(counter'[ip].count)]
               /\ req' = [req EXCEPT ![r] =
                            [@ EXCEPT !.count = counter'[ip].count,
                                      !.nth = window'[ip].calls,
                                      !.win = window[ip].serial,
                                      !.pc = "counted"]]
               /\ burst' = IF Exceeded(counter'[ip].count) THEN burst
                           ELSE Seen(burst, "cnt")
          ELSE /\ req' = [req EXCEPT ![r] = Reject(req[r], "incr")]
               /\ UNCHANGED <<counter, window, burst>>
  /\ UNCHANGED <<redisPort, cache, db, ticks, settled, deleted, writer>>

\* const count = <reply>; if (count === 1) ...; if (count > 10) ...; next()
LimiterCounted(r) ==
  /\ Quiet /\ req[r].handler = "rateLimiter" /\ req[r].pc = "counted"
  /\ req' = [req EXCEPT ![r] =
               IF NeedsExpire(req[r].count) THEN [@ EXCEPT !.pc = "expire"]
                                            ELSE Verdict(req[r])]
  /\ window' = [window EXCEPT ![req[r].ip] =
                  IF NeedsExpire(req[r].count) THEN @ ELSE Tally(@, req[r])]
  /\ burst' = IF req'[r].out = "next" THEN Seen(burst, "adm") ELSE burst
  /\ UNCHANGED <<redisPort, cache, counter, db, ticks, settled, deleted,
                 writer>>

\* await redis.expire(key, 60): the server applies the command.  The reply
\* reaches the handler later (LimiterExpired).
LimiterExpire(r) ==
  /\ Quiet /\ req[r].handler = "rateLimiter" /\ req[r].pc = "expire"
  /\ LET ip == req[r].ip
     IN \E ok \in BOOLEAN :
          IF ok
          THEN /\ counter' = [counter EXCEPT ![ip] = Expire(@, WindowSecs)]
               /\ window' = [window EXCEPT ![ip].expires = @ + 1, ![ip].age = 0]
               /\ req' = [req EXCEPT ![r].pc = "expired"]
          ELSE /\ req' = [req EXCEPT ![r] = Reject(req[r], "expire")]
               /\ UNCHANGED <<counter, window>>
  /\ UNCHANGED <<redisPort, cache, db, ticks, settled, deleted, burst, writer>>

\* <expire replied>; if (count > 10) ...; next()
LimiterExpired(r) ==
  /\ Quiet /\ req[r].handler = "rateLimiter" /\ req[r].pc = "expired"
  /\ req' = [req EXCEPT ![r] = Verdict(req[r])]
  /\ window' = [window EXCEPT ![req[r].ip] = Tally(@, req[r])]
  /\ burst' = IF req'[r].out = "next" THEN Seen(burst, "adm") ELSE burst
  /\ UNCHANGED <<redisPort, cache, counter, db, ticks, settled, deleted,
                 writer>>

RateTick(d) ==
  Quiet /\ ticks < MaxRateTicks /\ Elapse(d) /\ burst' = Watched(burst, d)

\* d seconds pass and a stretch of time starts being watched.
WatchTick(d) ==
  /\ Quiet /\ ticks < MaxRateTicks /\ Elapse(d)
  /\ burst.state = "off" /\ burst' = FreshBurst

NextRate ==
  \/ \E r \in Reqs, ip \in Ips : StartLimiter(r, ip)
  \/ \E r \in Reqs : LimiterIncr(r)
  \/ \E r \in Reqs : LimiterCounted(r)
  \/ \E r \in Reqs : LimiterExpire(r)
  \/ \E r \in Reqs : LimiterExpired(r)
  \/ \E d \in TickSteps : RateTick(d)
  \/ \E r \in Reqs : Release(r)

SpecRate == Init /\ [][NextRate]_vars

\* The limiter alone, with a stretch of WindowSecs seconds watched from the
\* start or from some later instant.
InitBurst ==
  /\ redisPort = DefaultPort
  /\ cache = [c \in Cells |-> Absent]
  /\ counter = [ip \in Ips |-> [count |-> 0, ttl |-> -2]]
  /\ db = [i \in Ids |-> Null]
  /\ req = [r \in Reqs |-> Idle]
  /\ ticks = 0
  /\ settled = [i \in Ids |-> Unsettled]
  /\ deleted = [i \in Ids |-> "no"]
  /\ window = [ip \in Ips |-> NoWindow]
  /\ burst \in {NoBurst, FreshBurst}
  /\ writer = [i \in Ids |-> "none"]

NextBurst ==
  \/ NextRate
  \/ \E d \in TickSteps : WatchTick(d)

SpecBurst == InitBurst /\ [][NextBurst]_vars

\* ------------------------------------------------------------------ claims
CacheHandlers == {"products", "router", "news"}
ProductReads  == {"products", "router"}

Done(r) == req[r].pc = "done"

\* The value a 200 answer of a product read carries.
Data(q) == IF q.handler = "products" THEN q.res.body.value ELSE q.res.body.data

\* C1: after a read of a product key has populated the cache, and with no
\* invalidation of the key and less than the TTL elapsed since, a read whose
\* redis.get succeeds answers 200 with the populated value at once, having
\* called Product.findById zero times.
C1_NextReadHits ==
  [][\A r \in Reqs :
       ( /\ req[r].handler \in ProductReads
         /\ req[r].pc = "get" /\ req'[r].pc # "get"
         /\ req'[r].err # "get"
         /\ settled[req[r].id].val # "none" )
       => ( /\ req'[r].pc = "done" /\ req'[r].out = "json"
            /\ req'[r].res.status = 200
            /\ Data(req'[r]) = settled[req[r].id].val
            /\ req'[r].fetches = 0 )]_vars

\* C2: a limiter call that gets a verdict is the count-th call of its
\* window; it reaches next() when that ordinal is at most 10 and is answered
\* 429 otherwise; the stored count is the number of calls of the window, so
\* it is zero again once the window's 60 seconds have elapsed.
C2_FixedWindow ==
  /\ \A r \in Reqs :
       (req[r].handler = "rateLimiter" /\ Done(r) /\ req[r].out # "rejected")
       => /\ req[r].count = req[r].nth
          /\ req[r].nth <= MaxRequests => req[r].out = "next"
          /\ req[r].nth > MaxRequests =>
               req[r].out = "json" /\ req[r].res.status = 429
  /\ \A ip \in Ips : counter[ip].count = window[ip].calls

\* C2 witness: the 11th call of a window was answered 429, the window then
\* elapsed, and the first call of the next window reached next().
C2_Witness ==
  \E r \in Reqs :
    /\ req[r].handler = "rateLimiter" /\ Done(r) /\ req[r].out = "next"
    /\ req[r].nth = 1
    /\ window[req[r].ip].epoch = 1 /\ window[req[r].ip].denied

\* C3: the first read that queries the store after redis.del of its key,
\* with no write to the key in between, calls Product.findById exactly once,
\* whether or not the delete found an entry.
C3_MissAfterInvalidate ==
  \A r \in Reqs : (Done(r) /\ req[r].afterDel # "no") => req[r].fetches = 1

\* C3 witness: the delete removed an entry and the next read answered 200
\* from the database.
C3_Witness ==
  \E r \in Reqs :
    /\ Done(r) /\ req[r].afterDel = "entry"
    /\ req[r].out = "json" /\ req[r].res.status = 200

\* C4: the step in which the source fetch fails leaves every store untouched
\* and ends the request with the failure: router.get answers 500 with the
\* error, app.get("/products/:id") rejects with it.
C4_FailedFetchNotCached ==
  [][\A r \in Reqs :
       (req[r].err = "none" /\ req'[r].err = "find")
       => /\ cache' = cache
          /\ req'[r].pc = "done" /\ req'[r].fetches = 1
          /\ req[r].handler = "router" =>
               req'[r].out = "json" /\ req'[r].res.status = 500
          /\ req[r].handler = "products" => req'[r].out = "rejected"]_vars

\* C4 witness: a router read whose Product.findById failed has answered 500.
C4_Witness ==
  \E r \in Reqs :
    /\ req[r].handler = "router" /\ Done(r) /\ req[r].err = "find"
    /\ req[r].res.status = 500

\* C5: every 429 answer carries retryAfterSeconds, between 0 and the window
\* length.
C5_RetryAfter ==
  \A r \in Reqs :
    (req[r].handler = "rateLimiter" /\ Done(r) /\ req[r].res.status = 429)
    => /\ "retryAfterSeconds" \in DOMAIN req[r].res.body
       /\ req[r].res.body.retryAfterSeconds \in 0..WindowSecs

\* C6: within a window the expiry of a rate counter is set at most once, to
\* 60 seconds, by the call whose increment returned 1, which has set it
\* when it reaches next(); no other step raises it, so the counter has 60
\* seconds minus the window's age left to live.
C6_ExpirySetOnce ==
  /\ [](\A ip \in Ips :
          /\ window[ip].expires <= 1
          /\ window[ip].age >= 0 =>
               counter[ip].ttl = WindowSecs - window[ip].age)
  /\ [](\A r \in Reqs :
          (req[r].handler = "rateLimiter" /\ Done(r) /\ req[r].out = "next"
             /\ req[r].count = 1 /\ req[r].win = window[req[r].ip].serial)
          => window[req[r].ip].expires = 1 /\ window[req[r].ip].age >= 0)
  /\ [][\A ip \in Ips :
          (counter'[ip].ttl > 0 /\ counter'[ip].ttl > counter[ip].ttl)
          => /\ counter[ip].ttl = -1 /\ counter'[ip].ttl = WindowSecs
             /\ \E r \in Reqs :
                  /\ req[r].pc = "expire" /\ req[r].ip = ip
                  /\ req[r].count = 1 /\ req'[r].pc = "expired"]_vars

\* C6 witness: later calls were counted and time has passed in a window
\* whose expiry was set once.
C6_Witness ==
  \E ip \in Ips :
    /\ window[ip].expires = 1 /\ window[ip].age > 0
    /\ counter[ip].count > 2 /\ counter[ip].ttl < WindowSecs

\* C7: every cache entry present on any server has a positive time to live.
C7_EveryEntryExpires ==
  \A c \in Cells : cache[c].val # Nil => cache[c].ttl > 0

\* C7 witness: the three population paths have each written their entry.
C7_Witness ==
  /\ \E i \in Ids : /\ cache[<<Local, ProductKey(i)>>].val = Stringify(Null)
                    /\ cache[<<Alt, ProductKey(i)>>].val # Nil
  /\ cache[<<Upstash, NewsKey>>].val # Nil

\* C8: a cache read whose redis.get failed ends with a 200 answer computed
\* by one source fetch.
C8_ReadOutageFallsThrough ==
  \A r \in Reqs :
    (req[r].handler \in CacheHandlers /\ Done(r) /\ req[r].err = "get")
    => req[r].out = "json" /\ req[r].res.status = 200 /\ req[r].fetches = 1

\* C9: a cache read whose populating redis.set failed still ends with a 200
\* answer.
C9_WriteOutageStillAnswers ==
  \A r \in Reqs :
    (req[r].handler \in CacheHandlers /\ Done(r) /\ req[r].err = "set")
    => req[r].out = "json" /\ req[r].res.status = 200

\* C10: a cache read that found undecodable bytes ends with a 200 (or "not
\* found") answer computed by one source fetch, never with an error.
C10_UndecodableIsMiss ==
  \A r \in Reqs :
    (req[r].handler \in ProductReads /\ Done(r) /\ req[r].err = "parse")
    => /\ req[r].out = "json" /\ req[r].res.status \in {200, 404}
       /\ req[r].fetches = 1

\* C11: a limiter call ended by a failed store command has a verdict, and
\* with no policy declared that verdict is next() (fail open).
C11_FailOpen ==
  \A r \in Reqs :
    (req[r].handler = "rateLimiter" /\ Done(r) /\ req[r].err # "none")
    => req[r].out = "next"

\* Limiter calls that hold a count returned by redis.incr.
Counted(r) == req[r].handler = "rateLimiter" /\ req[r].count > 0

\* C12: under every interleaving, the calls of one identity counted in the
\* same window hold distinct counts, a call that reaches next() holds a
\* count of at most 10, and at most 10 calls of a window reach next().
C12_AtMostMPerWindow ==
  /\ \A r1, r2 \in Reqs :
       ( /\ r1 # r2 /\ Counted(r1) /\ Counted(r2)
         /\ req[r1].ip = req[r2].ip /\ req[r1].win = req[r2].win )
       => req[r1].count # req[r2].count
  /\ \A r \in Reqs :
       (Counted(r) /\ Done(r) /\ req[r].out = "next")
       => req[r].count <= MaxRequests
  /\ \A ip \in Ips : window[ip].admitted <= MaxRequests

\* C12 witness: the call counted first reaches next() last, after ten more
\* calls were counted while it was in flight, and it is the tenth admitted.
C12_Witness ==
  \E r \in Reqs :
    /\ Counted(r) /\ Done(r) /\ req[r].out = "next" /\ req[r].count = 1
    /\ req[r].win = window[req[r].ip].serial
    /\ window[req[r].ip].admitted = MaxRequests
    /\ window[req[r].ip].calls > MaxRequests

\* C15: a rate counter whose creating call is no longer about to set the
\* expiry has one; a counter without an expiry is removed by nothing.
C15_EveryCounterExpires ==
  \A ip \in Ips :
    ( /\ counter[ip].count > 0
      /\ ~ \E r \in Reqs : /\ Counted(r) /\ req[r].ip = ip
                           /\ req[r].count = 1
                           /\ req[r].pc \in {"counted", "expire"} )
    => counter[ip].ttl > 0

\* C19: the stored count is the number of calls counted in the window,
\* rejected ones included; it falls only when the key expires; and the
\* increment of a call that will be answered 429 adds one and leaves the
\* key's time to live as it was.
C19_RejectedStillCount ==
  /\ [](\A ip \in Ips : counter[ip].count = window[ip].calls)
  /\ [][\A ip \in Ips :
          /\ counter'[ip].count < counter[ip].count
             => /\ counter'[ip].count = 0 /\ ticks' = ticks + 1
                /\ counter[ip].ttl > 0
          /\ \A r \in Reqs :
               ( /\ req[r].handler = "rateLimiter" /\ req[r].ip = ip
                 /\ req[r].pc = "incr" /\ req'[r].pc = "counted"
                 /\ Exceeded(req'[r].count) )
               => /\ counter'[ip].count = counter[ip].count + 1
                  /\ counter'[ip].ttl = counter[ip].ttl]_vars

\* C19 witness: two calls beyond the limit have been counted in a window
\* that has been running for a while.
C19_Witness ==
  \E ip \in Ips :
    /\ window[ip].denied /\ counter[ip].count >= MaxRequests + 2
    /\ counter[ip].ttl > 0 /\ counter[ip].ttl < WindowSecs

\* C16: no more than 2 * 10 calls of one identity reach next() within any
\* stretch of 60 seconds.
C16_DoubleBurst ==
  burst.state = "on" => burst.adm <= 2 * MaxRequests

\* C16, as the code has it: no more than 2 * 10 increments that return at
\* most 10 (the calls that can reach next()) are applied within any stretch
\* of 60 seconds.
C16_DoubleCount ==
  burst.state = "on" => burst.cnt <= 2 * MaxRequests

\* C16 witness: 2 * 10 calls have reached next() within less than 60
\* seconds, ten of one window and ten of the next.
C16_Witness ==
  /\ burst.state = "on" /\ burst.age < WindowSecs
  /\ burst.adm = 2 * MaxRequests /\ burst.cnt <= 2 * MaxRequests

\* The cell a product read populates.
WriteCell(q) ==
  <<IF q.handler = "router" THEN RedisrServer ELSE Local, ProductKey(q.id)>>

\* The step of r in which its populating redis.set succeeds.
Populates(r) ==
  /\ req[r].handler \in ProductReads /\ req[r].pc = "set"
  /\ req'[r].pc = "done" /\ req'[r].err = "none"

\* C14: every product read that missed has made its own source fetch when
\* it populates; its populate leaves the entry holding its own payload with
\* the 3600 s expiry and it answers 200 with the value it fetched; and an
\* entry only ever changes to the payload of the read populating it.
C14_EachMissFetchesAndWrites ==
  /\ [](\A r \in Reqs :
          (req[r].handler \in ProductReads /\ req[r].pc = "set")
          => req[r].fetches = 1)
  /\ [][\A r \in Reqs :
          Populates(r)
          => /\ req'[r].out = "json" /\ req'[r].res.status = 200
             /\ Data(req'[r]) = req[r].product
             /\ Parse(cache'[WriteCell(req[r])].val) = req[r].product
             /\ cache'[WriteCell(req[r])].ttl = ProductTtl]_vars
  /\ [][\A c \in Cells :
          (c[2] # NewsKey /\ cache'[c].val # cache[c].val /\ cache'[c].val # Nil)
          => \E r \in Reqs : /\ Populates(r) /\ WriteCell(req[r]) = c
                             /\ Parse(cache'[c].val) = req[r].product]_vars

\* C14 witness: two reads of one key have both missed and fetched; one has
\* populated the entry and answered, the other is about to overwrite the
\* entry with a different payload of its own.
C14_Witness ==
  \E r1, r2 \in Reqs :
    /\ r1 # r2 /\ req[r1].id = req[r2].id
    /\ req[r1].handler \in ProductReads /\ req[r2].handler \in ProductReads
    /\ Done(r1) /\ req[r1].out = "json" /\ req[r1].res.status = 200
    /\ req[r1].fetches = 1 /\ req[r1].err = "none"
    /\ Parse(cache[WriteCell(req[r1])].val) = Data(req[r1])
    /\ req[r2].pc = "set" /\ req[r2].fetches = 1
    /\ WriteCell(req[r2]) = WriteCell(req[r1])
    /\ req[r2].product # Data(req[r1])

\* C17: a GET /news whose redis.get succeeds while an entry populated by an
\* earlier GET /news is less than 600 seconds old answers with source
\* "cache" and has not called getFakeNewsFromDb.
C17_SecondNewsHits ==
  [][\A r \in Reqs :
       ( /\ req[r].handler = "news" /\ req[r].pc = "get"
         /\ req'[r].pc # "get" /\ req'[r].err # "get"
         /\ cache[<<Upstash, NewsKey>>].val # Nil )
       => /\ req'[r].pc = "done" /\ req'[r].out = "json"
          /\ req'[r].res.status = 200
          /\ req'[r].res.body.source = "cache"
          /\ req'[r].fetches = 0]_vars

\* C18: the populate step of a product read whose Product.findById returned
\* null writes no cache entry, and no product read answers null out of the
\* cache.
C18_NullNotCached ==
  /\ [][\A r \in Reqs :
          ( /\ req[r].handler \in ProductReads /\ req[r].pc = "set"
            /\ req[r].product = Null /\ req'[r] # req[r] )
          => cache' = cache]_vars
  /\ [](\A r \in Reqs :
          ( /\ req[r].handler \in ProductReads /\ Done(r)
            /\ req[r].out = "json" /\ req[r].res.status = 200
            /\ req[r].fetches = 0 )
          => Data(req[r]) # Null)

\* The entry that reads of the key consult holds nothing the source has
\* replaced: it is missing, undecodable, or the product the source holds.
Fresh(id) ==
  Parse(cache[<<Local, ProductKey(id)>>].val) \in {ParseError, db[id]}

\* No read of the key is in progress.
ReadersFinished(id) ==
  \A r \in Reqs : req[r].handler \in ProductReads => req[r].id # id

\* C13: once a write to the source has been followed by redis.del of the
\* key and every read of the key has finished, the cache holds no value the
\* write replaced.
C13_NoStaleAfterInvalidate ==
  \A id \in Ids :
    (writer[id] \in {"finished", "raced"} /\ ReadersFinished(id))
    => Fresh(id)

\* C13, as the code has it: the same holds when no read that fetched before
\* the write was still to populate the cache at the time of the redis.del,
\* and then also while reads are in progress.
C13_NoStaleUnlessRaced ==
  \A id \in Ids : writer[id] \in {"none", "finished"} => Fresh(id)

\* C13 witness: a write has been followed by the redis.del, and a read has
\* since populated the cache with the product written.
C13_Witness ==
  \E r \in Reqs :
    /\ req[r].handler \in ProductReads /\ Done(r)
    /\ req[r].fetches = 1 /\ req[r].err = "none" /\ req[r].res.status = 200
    /\ writer[req[r].id] = "finished"
    /\ Data(req[r]) = db[req[r].id]
    /\ cache[<<Local, ProductKey(req[r].id)>>].val = Stringify(db[req[r].id])

====
